---- MODULE Spec2Model ----
(***************************************************************************)
(* Model of src/app.py: the cold-email generator's chat session (the       *)
(* Gradio Chatbot value), its handlers (generate_email_action, user, bot,  *)
(* send_email_action, Clear Chat) and the functions they call              *)
(* (generate_cold_email, customize_template, scrape_website,               *)
(* chat_function, send_email).                                             *)
(*                                                                         *)
(* Text.  A Python str is a sequence of pieces.  A piece <<kind, name,     *)
(* from, to>> stands for the characters from..to-1 of an atomic chunk of   *)
(* text: kind "lit" is a literal of app.py, "ws" is whitespace, "word" is  *)
(* text supplied from outside (user, language model, exception text).     *)
(* Slicing by character offsets, find, split and strip are computed on     *)
(* pieces as Python computes them on characters; a slice that cuts a       *)
(* chunk yields a piece with from > 0 or to < width.  Outside text is      *)
(* assumed not to contain app.py's literals.                               *)
(***************************************************************************)
EXTENDS Integers, Sequences, TLC

\* ------------------------------------------------------------- bounds
\* Longest chat history the model lets the user build.
MaxTurns == 3

\* ---------------------------------------------------------- text layer
Min(a, b) == IF a < b THEN a ELSE b
Max(a, b) == IF a > b THEN a ELSE b

\* len() of the literals of app.py (lines 281, 284, 310, 361, 363, 373, 374).
LitWidth(name) ==
  CASE name = "Here's your generated email:" -> 28
    [] name = "You can now edit this email" -> 27
    [] name = "by sending your edit requests." -> 30
    [] name = "Here's the updated version of your email based on your request:" -> 63
    [] name = "You can continue to edit this email by sending more edit requests." -> 66
    [] name = "Please use the 'Generate Email' button to create your initial email." -> 68
    [] name = "Error generating email:" -> 23
    [] name = "None" -> 4
    [] name = "Human:" -> 6
    [] name = "AI:" -> 3

Lit(name) == <<"lit", name, 0, LitWidth(name)>>
\* "\n\n", "\n" and " "
NL2 == <<"ws", "\\n\\n", 0, 2>>
NL == <<"ws", "\\n", 0, 1>>
SP == <<"ws", " ", 0, 1>>
\* Text from outside: w characters, none of them whitespace.
Word(name, w) == <<"word", name, 0, w>>

PieceLen(p) == p[4] - p[3]
IsSpace(p) == p[1] = "ws"

\* len(s)
RECURSIVE StrLen(_)
StrLen(s) == IF s = <<>> THEN 0 ELSE PieceLen(Head(s)) + StrLen(Tail(s))

\* s[a:b] for 0 <= a and 0 <= b
RECURSIVE SliceAt(_, _, _, _)
SliceAt(s, off, a, b) ==
  IF s = <<>> THEN <<>>
  ELSE LET p == Head(s)
           lo == Max(a, off)
           hi == Min(b, off + PieceLen(p))
       IN (IF lo < hi THEN << <<p[1], p[2], p[3] + (lo - off), p[3] + (hi - off)>> >>
                      ELSE <<>>)
          \o SliceAt(Tail(s), off + PieceLen(p), a, b)

Slice(s, a, b) == SliceAt(s, 0, a, b)

\* s.find(sub): the character offset of the first occurrence, or -1
StartsWith(s, sub) == Len(s) >= Len(sub) /\ SubSeq(s, 1, Len(sub)) = sub
RECURSIVE FindAt(_, _, _)
FindAt(s, sub, off) ==
  IF StartsWith(s, sub) THEN off
  ELSE IF s = <<>> THEN -1
  ELSE FindAt(Tail(s), sub, off + PieceLen(Head(s)))

Find(s, sub) == FindAt(s, sub, 0)

\* s.strip()
RECURSIVE LStrip(_)
LStrip(s) == IF s # <<>> /\ IsSpace(Head(s)) THEN LStrip(Tail(s)) ELSE s
RECURSIVE RStrip(_)
RStrip(s) == IF s # <<>> /\ IsSpace(s[Len(s)]) THEN RStrip(SubSeq(s, 1, Len(s) - 1)) ELSE s
Strip(s) == RStrip(LStrip(s))

\* s.split(sep) for a one-piece separator: the list of the parts
RECURSIVE SplitAcc(_, _, _)
SplitAcc(s, sep, cur) ==
  IF s = <<>> THEN <<cur>>
  ELSE IF Head(s) = sep THEN <<cur>> \o SplitAcc(Tail(s), sep, <<>>)
  ELSE SplitAcc(Tail(s), sep, Append(cur, Head(s)))

Split(s, sep) == SplitAcc(s, sep, <<>>)

\* sep.join(parts)
RECURSIVE Join(_, _)
Join(parts, sep) ==
  IF parts = <<>> THEN <<>>
  ELSE IF Len(parts) = 1 THEN parts[1]
  ELSE parts[1] \o sep \o Join(Tail(parts), sep)

\* Python's None and a present value, for a str-valued slot.
None == [some |-> FALSE, val |-> <<>>]
Some(s) == [some |-> TRUE, val |-> s]
\* f"{x}" of a slot
Fmt(x) == IF x.some THEN x.val ELSE <<Lit("None")>>

\* ------------------------------------------------------- exceptions
NoExc == [type |-> "", arg |-> ""]
Exc(type, arg) == [type |-> type, arg |-> arg]

\* len() of the field and template names that can appear in str(e)
NameLen(name) ==
  CASE name = "applicant_name" -> 14
    [] name = "company_name" -> 12
    [] name = "customer_results" -> 16
    [] name = "experience_summary" -> 18
    [] name = "hiring_manager_name" -> 19
    [] name = "job_title" -> 9
    [] name = "key_achievements" -> 16
    [] name = "key_features" -> 12
    [] name = "main_benefit" -> 12
    [] name = "newsletter" -> 10
    [] name = "product_name" -> 12
    [] name = "reason_for_contact" -> 18
    [] name = "reason_for_interest" -> 19
    [] name = "recipient_name" -> 14
    [] name = "relevant_skills" -> 15
    [] name = "sender_company" -> 14
    [] name = "sender_name" -> 11
    [] name = "sender_position" -> 15
    [] OTHER -> 0

\* str(e): KeyError quotes the key, ValueError is line 113's text, IndexError
\* and TypeError are the interpreter's texts, the collaborators' errors
\* (APIError, HttpError) carry a message of their own.
StrExc(e) ==
  LET w == CASE e.type = "KeyError" -> NameLen(e.arg) + 2
             [] e.type = "ValueError" -> 21 + NameLen(e.arg)
             [] e.type = "IndexError" -> 23
             [] e.type = "TypeError" -> 33
             [] OTHER -> 17
  IN << <<e.type, e.arg, 0, w>> >>

\* ------------------------------------------------- EmailTemplateEngine
\* self.templates: per template the placeholders of its skeleton, in the
\* order they occur in the text, and its required_fields.
templates ==
  [job_application |->
     [placeholders |-> <<"hiring_manager_name", "job_title", "company_name",
                         "relevant_skills", "experience_summary", "key_achievements",
                         "company_name", "reason_for_interest", "company_name",
                         "applicant_name">>,
      required_fields |-> <<"hiring_manager_name", "job_title", "company_name",
                            "relevant_skills", "experience_summary", "key_achievements",
                            "reason_for_interest", "applicant_name">>],
   sales_pitch |->
     [placeholders |-> <<"recipient_name", "reason_for_contact", "product_name",
                         "main_benefit", "product_name", "key_features",
                         "customer_results", "product_name", "company_name",
                         "company_name", "sender_name", "sender_position",
                         "sender_company">>,
      required_fields |-> <<"recipient_name", "reason_for_contact", "product_name",
                            "main_benefit", "key_features", "customer_results",
                            "company_name", "sender_name", "sender_position",
                            "sender_company">>]]

get_template_names == DOMAIN templates

Range(f) == {f[i] : i \in DOMAIN f}

\* get_required_fields: [] for an unknown name
get_required_fields(template_name) ==
  IF template_name \in DOMAIN templates
    THEN templates[template_name].required_fields ELSE <<>>

\* update_dynamic_inputs: the keys of the dict shown in the JSON component
update_dynamic_inputs(template_name) ==
  Range(get_required_fields(template_name))
    \ {"sender_name", "sender_email", "recipient_email"}

\* template.format(**kwargs): KeyError on the first placeholder, in text
\* order, that kwargs lacks.  kwargs is the set of its keys; the values do
\* not decide anything the handlers keep.
RECURSIVE FirstMissing(_, _)
FirstMissing(placeholders, kwargs) ==
  IF placeholders = <<>> THEN ""
  ELSE IF Head(placeholders) \notin kwargs THEN Head(placeholders)
  ELSE FirstMissing(Tail(placeholders), kwargs)

\* A reply of the language-model service: ok = FALSE is a transport or API
\* failure, content is choices[0].message.content.
LLMFailure == [ok |-> FALSE, content |-> <<>>]
LLMReply(content) == [ok |-> TRUE, content |-> content]

\* The result of running a function: the network calls it issued, in
\* order, the exception it raised (NoExc: it returned), its return value.
Outcome(calls, exc, value) == [calls |-> calls, exc |-> exc, value |-> value]

\* EmailTemplateEngine.customize_template
customize_template(template_name, kwargs, reply) ==
  IF template_name \notin DOMAIN templates
    THEN Outcome(<<>>, Exc("ValueError", template_name), <<>>)
  ELSE LET missing == FirstMissing(templates[template_name].placeholders, kwargs)
       IN IF missing # ""
            THEN Outcome(<<>>, Exc("KeyError", missing), <<>>)
          ELSE IF ~reply.ok
            THEN Outcome(<<"llm">>, Exc("APIError", "groq"), <<>>)
          ELSE Outcome(<<"llm">>, NoExc, reply.content)

\* --------------------------------------------------------- scrape_website
ParagraphThreshold == 1000
MaxContext == 5000

\* A retrieval: ok = FALSE when requests.get or the parse raises, with
\* len(str(e)) = errLen; else the length of the joined <p> texts and of
\* soup.get_text().
Page(pLen, docLen) == [ok |-> TRUE, pLen |-> pLen, docLen |-> docLen, errLen |-> 0]
PageError(errLen) == [ok |-> FALSE, pLen |-> 0, docLen |-> 0, errLen |-> errLen]

\* scrape_website, by the length of the string it returns
scrape_website(page) ==
  IF page.ok
    THEN LET text == IF page.pLen < ParagraphThreshold THEN page.docLen ELSE page.pLen
         IN Min(text, MaxContext)
  ELSE 24 + page.errLen

\* ------------------------------------------------------ generate_cold_email
\* Returns an Outcome extended with the length of website_context (-1:
\* nothing was scraped).
generate_cold_email(template_name, fields, page, analysis, reply) ==
  IF template_name = "job_application"
    THEN LET website_context == scrape_website(page)
             sections == Split(analysis.content, NL2)
         IN IF ~analysis.ok
              THEN Outcome(<<"fetch", "llm">>, Exc("APIError", "groq"), <<>>)
                     @@ [website_context |-> website_context]
            ELSE IF Len(sections) < 3
              THEN Outcome(<<"fetch", "llm">>, Exc("IndexError", ""), <<>>)
                     @@ [website_context |-> website_context]
            ELSE LET kwargs == fields \cup {"experience_summary", "key_achievements",
                                            "reason_for_interest"}
                     r == customize_template(template_name, kwargs, reply)
                 IN [r EXCEPT !.calls = <<"fetch", "llm">> \o @]
                      @@ [website_context |-> website_context]
  ELSE customize_template(template_name, fields, reply) @@ [website_context |-> -1]

\* ------------------------------------------------------- chat messages
\* line 361
GeneratedMessage(generated_email) ==
  <<Lit("Here's your generated email:"), NL2>> \o generated_email
    \o <<NL2, Lit("You can now edit this email"), SP, Lit("by sending your edit requests.")>>
\* line 363
ErrorMessage(e) == <<Lit("Error generating email:"), SP>> \o StrExc(e)
\* line 310
EditedMessage(edited_email) ==
  <<Lit("Here's the updated version of your email based on your request:"), NL2>>
    \o edited_email
    \o <<NL2, Lit("You can continue to edit this email by sending more edit requests.")>>
\* line 281
PleaseGenerate ==
  <<Lit("Please use the 'Generate Email' button to create your initial email.")>>

\* A turn of the Chatbot value is the pair [h[0], h[1]], here <<h0, h1>>.
\* line 284: "\n".join(f"Human: {h[0]}\nAI: {h[1]}" for h in history)
RECURSIVE ContextLines(_)
ContextLines(history) ==
  IF history = <<>> THEN <<>>
  ELSE << <<Lit("Human:"), SP>> \o Fmt(Head(history)[1])
            \o <<NL, Lit("AI:"), SP>> \o Fmt(Head(history)[2]) >>
       \o ContextLines(Tail(history))

\* ----------------------------------------------------------- chat_function
\* Returns an Outcome extended with the edit prompt it built: the values of
\* the three holes of the f-string of lines 287-300 (some = FALSE: none was
\* built).
NoPrompt == [some |-> FALSE, latest_email |-> <<>>, full_context |-> <<>>, message |-> <<>>]

chat_function(message, history, reply) ==
  IF history = <<>>
    THEN Outcome(<<>>, NoExc, PleaseGenerate) @@ [edit_prompt |-> NoPrompt]
  ELSE LET full_context == Join(ContextLines(history), <<NL>>)
           first == history[1][2]
           parts == Split(first.val, NL2)
       IN IF ~first.some
            THEN Outcome(<<>>, Exc("AttributeError", "split"), <<>>)
                   @@ [edit_prompt |-> NoPrompt]
          ELSE IF Len(parts) < 2
            THEN Outcome(<<>>, Exc("IndexError", ""), <<>>) @@ [edit_prompt |-> NoPrompt]
          ELSE LET latest_email == parts[Len(parts) - 1]
                   edit_prompt == [some |-> TRUE, latest_email |-> latest_email,
                                   full_context |-> full_context,
                                   message |-> Fmt(message)]
               IN IF ~reply.ok
                    THEN Outcome(<<"llm">>, Exc("APIError", "groq"), <<>>)
                           @@ [edit_prompt |-> edit_prompt]
                  ELSE Outcome(<<"llm">>, NoExc, EditedMessage(reply.content))
                         @@ [edit_prompt |-> edit_prompt]

\* ---------------------------------------------------------------- send_email
\* delivery_ok = FALSE: resend.Emails.send raises.  The try/except of lines
\* 195-208 turns that into the return value False.
send_email_unguarded(content, delivery_ok) ==
  IF delivery_ok
    THEN [returned |-> "True", exc |-> NoExc]
  ELSE [returned |-> "", exc |-> Exc("ResendError", "resend")]

send_email(content, delivery_ok) ==
  IF delivery_ok
    THEN [returned |-> "True", exc |-> NoExc]
  ELSE [returned |-> "False", exc |-> NoExc]

\* ------------------------------------------------------------------- user
user_prepend(user_message, history) == << <<Some(user_message), None>> >> \o history

user(user_message, history) == Append(history, <<Some(user_message), None>>)

\* -------------------------------------------------------------------- bot
\* Returns an Outcome whose value is the history handed back to the
\* Chatbot, extended with the edit prompt.  When chat_function raises,
\* nothing is handed back.
bot(history, reply) ==
  LET user_message == history[Len(history)][1]
      c == chat_function(user_message, SubSeq(history, 1, Len(history) - 1), reply)
  IN IF c.exc # NoExc
       THEN [c EXCEPT !.value = <<>>]
     ELSE [c EXCEPT !.value = [history EXCEPT ![Len(history)][2] = Some(c.value)]]

\* ------------------------------------------------------ generate_email_action
\* dynamic_inputs: the keys of the JSON component's dict, or Python's None
\* (no template selected yet).
NoInputs == [some |-> FALSE, val |-> {}]
Inputs(keys) == [some |-> TRUE, val |-> keys]

\* Returns an Outcome whose value is the new Chatbot value, extended with
\* the length of website_context.  exc is the exception the try of lines
\* 351-363 caught.
generate_email_action(template_name, dynamic_inputs, page, analysis, reply, sheets_ok) ==
  IF ~dynamic_inputs.some
    THEN LET e == Exc("TypeError", "NoneType")
         IN Outcome(<<>>, e, << <<None, Some(ErrorMessage(e))>> >>)
              @@ [website_context |-> -1]
  ELSE LET fields == {"sender_name", "sender_email", "relevant_skills", "job_url"}
                       \cup dynamic_inputs.val
           g == generate_cold_email(template_name, fields, page, analysis, reply)
           e == Exc("HttpError", "sheets")
       IN IF g.exc # NoExc
            THEN [g EXCEPT !.value = << <<None, Some(ErrorMessage(g.exc))>> >>]
          ELSE IF ~sheets_ok
            THEN [g EXCEPT !.calls = @ \o <<"sheets">>, !.exc = e,
                           !.value = << <<None, Some(ErrorMessage(e))>> >>]
          ELSE [g EXCEPT !.calls = @ \o <<"sheets">>,
                         !.value = << <<None, Some(GeneratedMessage(g.value))>> >>]

\* ---------------------------------------------------------- send_email_action
\* Returns the calls issued, the exception that escaped, the content handed
\* to send_email, send_email's return value and the text shown to the user.
SendResult(calls, e, email_content, returned, status) ==
  [calls |-> calls, exc |-> e, email_content |-> email_content,
   returned |-> returned, status |-> status]

send_email_action(recipient, history, delivery_ok) ==
  IF history = <<>>
    THEN SendResult(<<>>, NoExc, None, "", "Please generate an email first.")
  ELSE IF recipient = ""
    THEN SendResult(<<>>, NoExc, None, "", "Please enter the recipient's email address.")
  ELSE LET latest_email_message == history[Len(history)][2]
           m == latest_email_message.val
           email_content_start ==
             Find(m, <<Lit("Here's your generated email:")>>)
               + LitWidth("Here's your generated email:")
           found == Find(m, <<NL2, Lit("You can now edit this email")>>)
           email_content_end == IF found = -1 THEN StrLen(m) ELSE found
           email_content == Strip(Slice(m, email_content_start, email_content_end))
           sent == send_email(email_content, delivery_ok)
       IN IF ~latest_email_message.some
            THEN SendResult(<<>>, Exc("AttributeError", "find"), None, "", "")
          ELSE IF sent.exc # NoExc
            THEN SendResult(<<"resend">>, sent.exc, Some(email_content), "", "")
          ELSE SendResult(<<"resend">>, NoExc, Some(email_content), sent.returned,
                          IF sent.returned = "True"
                            THEN "Email sent successfully!"
                            ELSE "Failed to send email. Please try again.")

\* ------------------------------------------------------------------ inputs
\* What the user types into the Edit Request box.
Requests == { <<Word("shorter", 7)>>, <<Word("friendlier", 10)>> }
\* What the language model returns for an email: one paragraph, or two.
Drafts == { <<Word("Dear-A", 6)>>, <<Word("Dear-B", 6), NL2, Word("Regards", 7)>> }
\* What it returns for the analysis prompt: the four sections asked for, or
\* a single paragraph.
Analyses ==
  { <<Word("Required", 8), NL2, Word("Matching", 8), NL2,
      Word("Growth", 6), NL, Word("1.", 2), NL, Word("2.", 2), NL2,
      Word("Suggestions", 11), NL, Word("1.", 2)>>,
    <<Word("Sorry", 5)>> }
Replies(contents) == {LLMFailure} \cup {LLMReply(c) : c \in contents}
\* Retrievals: paragraph text under the threshold with an over-long document,
\* paragraph text at the threshold and over the limit, and failures
\* with a short and with a long exception text.
Pages == { Page(999, 6000), Page(1000, 1500), Page(7000, 7100),
           PageError(40), PageError(6000) }
\* The page and the analysis reply when the template asks for neither.
NoPage == Page(0, 0)
TemplateChoices == get_template_names \cup {"newsletter"}
\* Fields a caller may leave out.
Droppable == {"hiring_manager_name", "applicant_name",
              "recipient_name", "sender_company"}
\* The JSON component holds the dict update_dynamic_inputs built for the
\* selected template (for an unknown name: for some template), less what the
\* caller left out; or None.
DynamicInputs(template_name) ==
  {NoInputs} \cup
  { Inputs(update_dynamic_inputs(t) \ m) :
      t \in (IF template_name \in get_template_names
               THEN {template_name} ELSE get_template_names),
      m \in SUBSET Droppable }
Recipients == {"", "hr@example.com"}

\* ------------------------------------------------------------------- state
\* One action is in flight at a time: between the user step of a submit and
\* the bot step chained to it by .then() no other handler runs.  The
\* Chatbot component presents the value None (initially, and after Clear
\* Chat) to the handlers as the empty list.  Besides the Chatbot value the
\* state records what the handler that ran last did: its inputs, the
\* network calls it issued, the exception raised in it and its results.
VARIABLES
  chatbot,          \* the Chatbot component's value: the session history
  pc,               \* "bot" between the user step and the bot step of a submit
  handler,          \* the handler that ran last
  gen_args,         \* template_name and dynamic_inputs of the last generate
  calls,            \* the network calls the last handler issued, in order
  exc,              \* the exception raised inside the last handler (NoExc: none)
  website_context,  \* len(website_context) of the last generate (-1: none)
  edit_prompt,      \* the edit prompt the last bot step built
  email_content,    \* the content the last send handed to send_email
  delivery,         \* what the delivery service did in the last send: "", "ok", "failed"
  returned,         \* what send_email returned to the last send ("": not called)
  status,           \* the text the last send showed
  started,          \* the last generate succeeded and no Clear Chat followed
  reqs              \* the edit requests submitted since then, in order

vars == <<chatbot, pc, handler, gen_args, calls, exc, website_context,
          edit_prompt, email_content, delivery, returned, status, started, reqs>>

NoArgs == [template_name |-> "", dynamic_inputs |-> NoInputs]

Init ==
  /\ chatbot = <<>>
  /\ pc = "idle"
  /\ handler = "init"
  /\ gen_args = NoArgs
  /\ calls = <<>>
  /\ exc = NoExc
  /\ website_context = -1
  /\ edit_prompt = NoPrompt
  /\ email_content = None
  /\ delivery = ""
  /\ returned = ""
  /\ status = ""
  /\ started = FALSE
  /\ reqs = <<>>

\* generate_button.click: the returned list replaces the Chatbot value.
Generate ==
  /\ pc = "idle"
  /\ \E template_name \in TemplateChoices,
        reply \in Replies(Drafts), sheets_ok \in BOOLEAN :
     \E dynamic_inputs \in DynamicInputs(template_name),
        page \in (IF template_name = "job_application" THEN Pages ELSE {NoPage}),
        analysis \in (IF template_name = "job_application"
                        THEN Replies(Analyses) ELSE {LLMFailure}) :
       LET r == generate_email_action(template_name, dynamic_inputs, page,
                                      analysis, reply, sheets_ok)
       IN /\ chatbot' = r.value
          /\ gen_args' = [template_name |-> template_name,
                          dynamic_inputs |-> dynamic_inputs]
          /\ calls' = r.calls
          /\ exc' = r.exc
          /\ website_context' = r.website_context
          /\ started' = (r.exc = NoExc)
  /\ handler' = "generate"
  /\ reqs' = <<>>
  /\ edit_prompt' = NoPrompt
  /\ email_content' = None
  /\ delivery' = ""
  /\ returned' = ""
  /\ status' = ""
  /\ pc' = "idle"

\* msg.submit, first step (queue=False): user appends the request.
User ==
  /\ pc = "idle"
  /\ Len(chatbot) < MaxTurns
  /\ \E user_message \in Requests :
       /\ chatbot' = user(user_message, chatbot)
       /\ reqs' = IF started THEN Append(reqs, user_message) ELSE reqs
  /\ pc' = "bot"
  /\ handler' = "user"
  /\ gen_args' = NoArgs
  /\ calls' = <<>>
  /\ exc' = NoExc
  /\ website_context' = -1
  /\ edit_prompt' = NoPrompt
  /\ email_content' = None
  /\ delivery' = ""
  /\ returned' = ""
  /\ status' = ""
  /\ UNCHANGED started

\* msg.submit, .then(bot): on an exception the Chatbot keeps the value the
\* user step gave it.
Bot ==
  /\ pc = "bot"
  /\ \E reply \in Replies(Drafts) :
       LET r == bot(chatbot, reply)
       IN /\ chatbot' = IF r.exc = NoExc THEN r.value ELSE chatbot
          /\ calls' = r.calls
          /\ exc' = r.exc
          /\ edit_prompt' = r.edit_prompt
  /\ pc' = "idle"
  /\ handler' = "bot"
  /\ UNCHANGED <<gen_args, website_context, email_content, delivery, returned, status,
                 started, reqs>>

\* send_button.click: the output goes to a Textbox, never to the Chatbot.
Send ==
  /\ pc = "idle"
  /\ \E recipient \in Recipients, delivery_ok \in BOOLEAN :
       LET r == send_email_action(recipient, chatbot, delivery_ok)
       IN /\ calls' = r.calls
          /\ exc' = r.exc
          /\ email_content' = r.email_content
          /\ delivery' = IF r.calls = <<>> THEN "" ELSE IF delivery_ok THEN "ok" ELSE "failed"
          /\ returned' = r.returned
          /\ status' = r.status
  /\ handler' = "send"
  /\ gen_args' = NoArgs
  /\ website_context' = -1
  /\ edit_prompt' = NoPrompt
  /\ UNCHANGED <<chatbot, pc, started, reqs>>

\* clear.click(lambda: None, None, chatbot): the Chatbot shows None as the
\* empty list.
Clear ==
  /\ pc = "idle"
  /\ chatbot' = <<>>
  /\ handler' = "clear"
  /\ started' = FALSE
  /\ reqs' = <<>>
  /\ gen_args' = NoArgs
  /\ calls' = <<>>
  /\ exc' = NoExc
  /\ website_context' = -1
  /\ edit_prompt' = NoPrompt
  /\ email_content' = None
  /\ delivery' = ""
  /\ returned' = ""
  /\ status' = ""
  /\ UNCHANGED pc

Next == Generate \/ User \/ Bot \/ Send \/ Clear

Spec == Init /\ [][Next]_vars

\* ------------------------------------------------------------ properties
\* The language model's text inside a chat message: what lies between the
\* heading paragraph and the closing paragraph that lines 310 and 361 put
\* around it.
DraftOf(message) ==
  LET parts == Split(message, NL2)
  IN Join(SubSeq(parts, 2, Len(parts) - 1), <<NL2>>)

\* The message frames a draft of the language model (line 361 or line 310).
HoldsDraft(message) ==
  \/ StartsWith(message, <<Lit("Here's your generated email:"), NL2>>)
  \/ StartsWith(message,
       <<Lit("Here's the updated version of your email based on your request:"), NL2>>)

Last(seq) == seq[Len(seq)]

\* C1: after a successful generate followed by N edit requests the history
\* has N+1 turns, turn 0 has no request, and turn i holds the i-th request,
\* in call order.
C1_TurnsInCallOrder ==
  started =>
    /\ Len(chatbot) = Len(reqs) + 1
    /\ chatbot[1][1] = None
    /\ \A i \in 1..Len(reqs) : chatbot[i + 1][1] = Some(reqs[i])

\* Two different requests have been submitted after a successful generate and
\* both bot steps have filled their drafts.
C1_Witness ==
  /\ started /\ pc = "idle" /\ handler = "bot"
  /\ Len(reqs) = 2 /\ reqs[1] # reqs[2]
  /\ chatbot[2][2].some /\ chatbot[3][2].some

\* C2: an edit submitted on a session with zero turns fails with an error
\* and leaves the session with zero turns once the user and bot steps are
\* done.
C2_EmptyEditLeavesEmpty ==
  (handler = "bot" /\ Len(chatbot) <= 1) => (chatbot = <<>> /\ exc # NoExc)

\* C3: in every reachable state a non-empty history has a first turn with
\* no request and a non-empty draft.
C3_FirstTurnIsGeneratedDraft ==
  chatbot # <<>> =>
    /\ chatbot[1][1] = None
    /\ chatbot[1][2].some
    /\ chatbot[1][2].val # <<>>

\* C4: a generate or an edit that fails during generation or analysis leaves
\* the history exactly as it was before the action started (for an edit:
\* before its user step appended the request).  APIError is a failed
\* language-model call, IndexError a failed parse of its reply.
C4_FailedActionKeepsHistory ==
  [][ /\ (handler' = "generate" /\ exc'.type \in {"APIError", "IndexError"})
           => chatbot' = chatbot
      /\ (handler' = "bot" /\ exc'.type \in {"APIError", "IndexError"})
           => chatbot' = SubSeq(chatbot, 1, Len(chatbot) - 1) ]_vars

\* C5: a generation rejected for an unknown template name or a missing
\* required field is rejected before any network call is issued.
C5_RejectedBeforeNetwork ==
  (handler = "generate" /\ exc.type \in {"ValueError", "KeyError"}) => calls = <<>>

\* C6: the draft an edit embeds in its prompt as the email to revise is the
\* draft of the most recent turn of the history it was given.
C6_PromptHoldsLatestDraft ==
  (handler = "bot" /\ edit_prompt.some /\ HoldsDraft(chatbot[Len(chatbot) - 1][2].val))
    => edit_prompt.latest_email = DraftOf(chatbot[Len(chatbot) - 1][2].val)

\* C7: the content send hands to the delivery service is exactly the latest
\* draft of the session, without the chat framing around it.
C7_SendsLatestDraft ==
  (handler = "send" /\ email_content.some /\ HoldsDraft(Last(chatbot)[2].val))
    => email_content.val = DraftOf(Last(chatbot)[2].val)

\* C8: when the delivery service fails during a send, send_email returns
\* False and nothing is raised, and the send leaves the history unchanged.
C8_FailedDeliveryKeepsSession ==
  [][ (handler' = "send" /\ delivery' = "failed")
        => (returned' = "False" /\ exc' = NoExc /\ chatbot' = chatbot) ]_vars

\* A send on a session with an edited draft whose delivery failed.
C8_Witness ==
  /\ handler = "send" /\ delivery = "failed"
  /\ Len(chatbot) >= 2 /\ Last(chatbot)[2].some

\* The required fields the composer finds missing: required_fields less the
\* supplied fields and, for job_application, less the three fields the
\* analysis fills in.
MissingFields(args) ==
  Range(get_required_fields(args.template_name))
    \ ({"sender_name", "sender_email", "relevant_skills", "job_url"}
         \cup args.dynamic_inputs.val
         \cup (IF args.template_name = "job_application"
                 THEN {"experience_summary", "key_achievements", "reason_for_interest"}
                 ELSE {}))

\* C9: composing with required fields missing fails with an error whose
\* text names every missing required field.
C9_NamesEveryMissingField ==
  (handler = "generate" /\ exc.type = "KeyError")
    => {p[2] : p \in {q \in Range(chatbot[1][2].val) : q[1] = "KeyError"}}
         = MissingFields(gen_args)

\* C10: whatever the retrieval's outcome, the string the context fetch
\* returns has at most 5000 characters.
C10_ContextAtMostLimit == website_context <= MaxContext

====
